---- MODULE Spec2Model ----
(***************************************************************************)
(* MBO -> MBP-10 order book reconstruction (mbp_reconstructor).            *)
(*                                                                         *)
(* The model follows src/src/Orderbook.cpp (OrderBook), the PriceLevel and *)
(* MBPRow structures of src/include/Orderbook.hpp, the record filter of    *)
(* src/src/CsvReader.cpp (validate_order), the row check of                *)
(* src/src/CsvWriter.cpp (validate_mbp_row, write_mbp_row) and the         *)
(* processing loop of src/src/main.cpp (process_reconstruction).           *)
(*                                                                         *)
(* A book is a record [bid_levels, ask_levels, active_orders].  A side's   *)
(* std::map is the sequence of its entries [key, level] in iteration       *)
(* order, which the comparator fixes: std::greater for bids, std::less for *)
(* asks.  active_orders is a function from the live order ids.             *)
(*                                                                         *)
(* Four specifications share the actions: Spec is the processing loop     *)
(* over the records the reader lets through, SpecBook calls process_order  *)
(* on the book directly with any record, SpecLegs feeds the Trade, Fill    *)
(* and Cancel records of one resting order and the end of the input,       *)
(* SpecReuse feeds Adds and Cancels that all name one order id.            *)
(*                                                                         *)
(* Left out: the Statistics counters, timers, console output, the          *)
(* processed_orders / mbp_updates report counters and file I/O failures    *)
(* (the stream is taken to be open and writable).                          *)
(***************************************************************************)
EXTENDS Integers, Sequences, FiniteSets, TLC

\* ------------------------------------------------------------------------
\* Program constants
\* ------------------------------------------------------------------------
MAX_DEPTH == 10

ACTION_ADD == "A"
ACTION_CANCEL == "C"
ACTION_TRADE == "T"
ACTION_FILL == "F"
ACTION_CLEAR == "R"

SIDE_BID == "B"
SIDE_ASK == "A"
SIDE_NEUTRAL == "N"

\* ------------------------------------------------------------------------
\* Bounds of the model
\* ------------------------------------------------------------------------
\* price levels per side that the ladder part of the input builds
MaxLadder == 11
\* records of the input that follow the ladder part
MaxFree == 2
\* records that follow the ladder when they all name one order id
MaxReuse == 3
\* calls of process_order that follow the ladder when the book is used on
\* its own
MaxCalls == 1

\* ------------------------------------------------------------------------
\* std::vector, std::map, std::unordered_map
\* ------------------------------------------------------------------------
\* index of the first occurrence of x in s, 0 when absent (std::find)
RECURSIVE FindFrom(_, _, _)
FindFrom(s, x, i) == IF i > Len(s) THEN 0
                     ELSE IF s[i] = x THEN i
                     ELSE FindFrom(s, x, i + 1)

\* s without its i-th element (erase)
EraseAt(s, i) == SubSeq(s, 1, i - 1) \o SubSeq(s, i + 1, Len(s))

\* s with x put in front of its i-th element
InsertAt(s, i, x) == SubSeq(s, 1, i - 1) \o <<x>> \o SubSeq(s, i, Len(s))

\* std::greater taken for std::less
greater_ascending(a, b) == a < b

\* the comparators of the two maps: does key a come before key b
greater(a, b) == a > b
less(a, b) == a < b
Before(cmp, a, b) == IF cmp = "greater" THEN greater(a, b) ELSE less(a, b)

\* map::find: index of the entry with this key, 0 for end()
RECURSIVE MapFindFrom(_, _, _)
MapFindFrom(m, key, i) == IF i > Len(m) THEN 0
                          ELSE IF m[i].key = key THEN i
                          ELSE MapFindFrom(m, key, i + 1)
MapFind(m, key) == MapFindFrom(m, key, 1)

\* map[key] = level under comparator cmp
MapPut(m, key, level, cmp) ==
    LET i == MapFind(m, key) IN
    IF i # 0 THEN [m EXCEPT ![i] = [key |-> key, level |-> level]]
    ELSE InsertAt(m, 1 + Cardinality({j \in 1..Len(m) : Before(cmp, m[j].key, key)}),
                  [key |-> key, level |-> level])

\* map::erase of the entry at index i
MapErase(m, i) == EraseAt(m, i)

\* unordered_map as a function
HashPut(h, k, v) == [x \in (DOMAIN h) \cup {k} |-> IF x = k THEN v ELSE h[x]]
HashErase(h, k) == [x \in (DOMAIN h) \ {k} |-> h[x]]
EmptyHash == [x \in {} |-> 0]

\* ------------------------------------------------------------------------
\* Order, PriceLevel
\* ------------------------------------------------------------------------
\* Scaled price as the double it is written as: price_scaled / 1e9.  The
\* quotient is kept as the pair it is computed from; for the prices of this
\* model (far below 2^53) the division loses nothing.
get_price(price_scaled) == [nanos |-> price_scaled, per |-> 1000000000]

\* price > units, for a price as get_price gives it
PriceAbove(price, units) ==
    \/ price.nanos \div price.per > units
    \/ price.nanos \div price.per = units /\ price.nanos % price.per > 0

is_bid(order) == order.side = "B"
is_ask(order) == order.side = "A"
is_valid(order) == order.side = "B" \/ order.side = "A"

\* PriceLevel(price, size, order_id)
PriceLevel(price, size, order_id) ==
    [price_scaled |-> price, total_size |-> size, order_count |-> 1,
     order_ids |-> <<order_id>>]

\* add_order that lists and counts the order but forgets its size
PriceLevel_add_order_nosize(level, order_id, size) ==
    [level EXCEPT !.order_ids = Append(@, order_id),
                  !.order_count = @ + 1]

\* PriceLevel::add_order
PriceLevel_add_order(level, order_id, size) ==
    [level EXCEPT !.order_ids = Append(@, order_id),
                  !.total_size = @ + size,
                  !.order_count = @ + 1]

\* remove_order that takes the id and the size off the level but leaves its
\* order_count
PriceLevel_remove_order_uncounted(level, order_id, size) ==
    LET it == FindFrom(level.order_ids, order_id, 1) IN
    IF it # 0
    THEN LET l2 == [level EXCEPT !.order_ids = EraseAt(@, it),
                                 !.total_size = @ - size]
         IN [level |-> l2, empty |-> (l2.order_count = 0)]
    ELSE [level |-> level, empty |-> FALSE]

\* remove_order that never reports the level empty
PriceLevel_remove_order_keep(level, order_id, size) ==
    LET it == FindFrom(level.order_ids, order_id, 1) IN
    IF it # 0
    THEN [level |-> [level EXCEPT !.order_ids = EraseAt(@, it),
                                  !.total_size = @ - size,
                                  !.order_count = @ - 1],
          empty |-> FALSE]
    ELSE [level |-> level, empty |-> FALSE]

\* PriceLevel::remove_order: [level, empty]
PriceLevel_remove_order(level, order_id, size) ==
    LET it == FindFrom(level.order_ids, order_id, 1) IN
    IF it # 0
    THEN LET l2 == [level EXCEPT !.order_ids = EraseAt(@, it),
                                 !.total_size = @ - size,
                                 !.order_count = @ - 1]
         IN [level |-> l2, empty |-> (l2.order_count = 0)]
    ELSE [level |-> level, empty |-> FALSE]

OrderInfo(s, p, sz) == [side |-> s, price_scaled |-> p, size |-> sz]

\* ------------------------------------------------------------------------
\* OrderBook
\* ------------------------------------------------------------------------
EmptyBook == [bid_levels |-> << >>, ask_levels |-> << >>,
              active_orders |-> EmptyHash]

\* clear() that forgets the order index
clear_levels_only(book) ==
    [book EXCEPT !.bid_levels = << >>, !.ask_levels = << >>]

\* OrderBook::clear
clear(book) == EmptyBook

\* the loop of get_price_depth over one side's map
RECURSIVE DepthWalk(_, _, _, _)
DepthWalk(m, price_scaled, i, depth) ==
    IF i > Len(m) THEN -1
    ELSE IF m[i].key = price_scaled THEN depth
    ELSE IF depth + 1 >= MAX_DEPTH THEN -1
    ELSE DepthWalk(m, price_scaled, i + 1, depth + 1)

\* get_price_depth that walks the whole map and never gives up
get_price_depth_unbounded(book, side, price_scaled) ==
    IF side = SIDE_BID THEN MapFind(book.bid_levels, price_scaled) - 1
    ELSE IF side = SIDE_ASK THEN MapFind(book.ask_levels, price_scaled) - 1
    ELSE -1

\* OrderBook::get_price_depth
get_price_depth(book, side, price_scaled) ==
    IF side = SIDE_BID THEN DepthWalk(book.bid_levels, price_scaled, 1, 0)
    ELSE IF side = SIDE_ASK THEN DepthWalk(book.ask_levels, price_scaled, 1, 0)
    ELSE -1

\* affects_top_levels that takes the first 9 levels for the top
affects_top_levels_nine(book, side, price_scaled) ==
    LET depth == get_price_depth(book, side, price_scaled) IN
    depth >= 0 /\ depth < MAX_DEPTH - 1

\* OrderBook::affects_top_levels
affects_top_levels(book, side, price_scaled) ==
    LET depth == get_price_depth(book, side, price_scaled) IN
    depth >= 0 /\ depth < MAX_DEPTH

\* add_order on one side that always starts a new level
AddToSide_new(m, order, cmp) ==
    MapPut(m, order.price_scaled,
           PriceLevel(order.price_scaled, order.size, order.order_id), cmp)

\* add_order on one side: levels[price], then a new level or level.add_order
AddToSide(m, order, cmp) ==
    LET i == MapFind(m, order.price_scaled) IN
    IF i = 0 \/ m[i].level.order_count = 0
    THEN MapPut(m, order.price_scaled,
                PriceLevel(order.price_scaled, order.size, order.order_id),
                cmp)
    ELSE MapPut(m, order.price_scaled,
                PriceLevel_add_order(m[i].level, order.order_id, order.size),
                cmp)

\* add_order that reports a change only when it made a new level
add_order_new_level(book, order) ==
    IF ~is_valid(order) \/ order.price_scaled = 0 \/ order.size = 0
    THEN [book |-> book, ret |-> FALSE]
    ELSE LET b1 == [book EXCEPT !.active_orders =
                        HashPut(@, order.order_id,
                                OrderInfo(order.side, order.price_scaled,
                                          order.size))]
             b2 == IF is_bid(order)
                   THEN [b1 EXCEPT !.bid_levels = AddToSide(@, order, "greater")]
                   ELSE IF is_ask(order)
                   THEN [b1 EXCEPT !.ask_levels = AddToSide(@, order, "less")]
                   ELSE b1
         IN [book |-> b2,
             ret |-> /\ Len(b2.bid_levels) + Len(b2.ask_levels) >
                          Len(book.bid_levels) + Len(book.ask_levels)
                     /\ affects_top_levels(b2, order.side,
                                           order.price_scaled)]

\* add_order that checks the side and the size but not the price
add_order_any_price(book, order) ==
    IF ~is_valid(order) \/ order.size = 0
    THEN [book |-> book, ret |-> FALSE]
    ELSE LET b1 == [book EXCEPT !.active_orders =
                        HashPut(@, order.order_id,
                                OrderInfo(order.side, order.price_scaled,
                                          order.size))]
             b2 == IF is_bid(order)
                   THEN [b1 EXCEPT !.bid_levels = AddToSide(@, order, "greater")]
                   ELSE IF is_ask(order)
                   THEN [b1 EXCEPT !.ask_levels = AddToSide(@, order, "less")]
                   ELSE b1
         IN [book |-> b2,
             ret |-> affects_top_levels(b2, order.side, order.price_scaled)]

\* add_order that looks the price up before it inserts the order
add_order_stale(book, order) ==
    IF ~is_valid(order) \/ order.price_scaled = 0 \/ order.size = 0
    THEN [book |-> book, ret |-> FALSE]
    ELSE LET b1 == [book EXCEPT !.active_orders =
                        HashPut(@, order.order_id,
                                OrderInfo(order.side, order.price_scaled,
                                          order.size))]
             b2 == IF is_bid(order)
                   THEN [b1 EXCEPT !.bid_levels = AddToSide(@, order, "greater")]
                   ELSE IF is_ask(order)
                   THEN [b1 EXCEPT !.ask_levels = AddToSide(@, order, "less")]
                   ELSE b1
         IN [book |-> b2,
             ret |-> affects_top_levels(book, order.side, order.price_scaled)]

\* OrderBook::add_order: [book, ret]
add_order(book, order) ==
    IF ~is_valid(order) \/ order.price_scaled = 0 \/ order.size = 0
    THEN [book |-> book, ret |-> FALSE]
    ELSE LET b1 == [book EXCEPT !.active_orders =
                        HashPut(@, order.order_id,
                                OrderInfo(order.side, order.price_scaled,
                                          order.size))]
             b2 == IF is_bid(order)
                   THEN [b1 EXCEPT !.bid_levels = AddToSide(@, order, "greater")]
                   ELSE IF is_ask(order)
                   THEN [b1 EXCEPT !.ask_levels = AddToSide(@, order, "less")]
                   ELSE b1
         IN [book |-> b2,
             ret |-> affects_top_levels(b2, order.side, order.price_scaled)]

\* RemoveFromSide that erases the level without asking whether it is empty
RemoveFromSide_erase(m, order_id, order_info) ==
    LET level_iter == MapFind(m, order_info.price_scaled) IN
    IF level_iter # 0 THEN MapErase(m, level_iter) ELSE m

\* cancel_order on one side: find the level, remove_order, erase if empty
RemoveFromSide(m, order_id, order_info) ==
    LET level_iter == MapFind(m, order_info.price_scaled) IN
    IF level_iter # 0
    THEN LET r == PriceLevel_remove_order(m[level_iter].level, order_id,
                                          order_info.size)
         IN IF r.empty THEN MapErase(m, level_iter)
            ELSE [m EXCEPT ![level_iter].level = r.level]
    ELSE m

\* cancel_order that answers for the Cancel's own side and price when it
\* does not know the order
cancel_order_declared(book, order) ==
    IF order.order_id \notin DOMAIN book.active_orders
    THEN [book |-> book,
          ret |-> affects_top_levels(book, order.side, order.price_scaled)]
    ELSE LET order_info == book.active_orders[order.order_id]
             affects_top == affects_top_levels(book, order_info.side,
                                               order_info.price_scaled)
             b1 == IF order_info.side = SIDE_BID
                   THEN [book EXCEPT !.bid_levels =
                            RemoveFromSide(@, order.order_id, order_info)]
                   ELSE IF order_info.side = SIDE_ASK
                   THEN [book EXCEPT !.ask_levels =
                            RemoveFromSide(@, order.order_id, order_info)]
                   ELSE book
             b2 == [b1 EXCEPT !.active_orders = HashErase(@, order.order_id)]
         IN [book |-> b2, ret |-> affects_top]

\* cancel_order that looks the price up after it removed the order
cancel_order_after(book, order) ==
    IF order.order_id \notin DOMAIN book.active_orders
    THEN [book |-> book, ret |-> FALSE]
    ELSE LET order_info == book.active_orders[order.order_id]
             b1 == IF order_info.side = SIDE_BID
                   THEN [book EXCEPT !.bid_levels =
                            RemoveFromSide(@, order.order_id, order_info)]
                   ELSE IF order_info.side = SIDE_ASK
                   THEN [book EXCEPT !.ask_levels =
                            RemoveFromSide(@, order.order_id, order_info)]
                   ELSE book
             b2 == [b1 EXCEPT !.active_orders = HashErase(@, order.order_id)]
         IN [book |-> b2,
             ret |-> affects_top_levels(b2, order_info.side,
                                        order_info.price_scaled)]

\* cancel_order that takes the size off the level as the Cancel states it
cancel_order_own_size(book, order) ==
    IF order.order_id \notin DOMAIN book.active_orders
    THEN [book |-> book, ret |-> FALSE]
    ELSE LET order_info == book.active_orders[order.order_id]
             affects_top == affects_top_levels(book, order_info.side,
                                               order_info.price_scaled)
             stated == [order_info EXCEPT !.size = order.size]
             b1 == IF order_info.side = SIDE_BID
                   THEN [book EXCEPT !.bid_levels =
                            RemoveFromSide(@, order.order_id, stated)]
                   ELSE IF order_info.side = SIDE_ASK
                   THEN [book EXCEPT !.ask_levels =
                            RemoveFromSide(@, order.order_id, stated)]
                   ELSE book
             b2 == [b1 EXCEPT !.active_orders = HashErase(@, order.order_id)]
         IN [book |-> b2, ret |-> affects_top]

\* OrderBook::cancel_order: [book, ret]
cancel_order(book, order) ==
    IF order.order_id \notin DOMAIN book.active_orders
    THEN [book |-> book, ret |-> FALSE]
    ELSE LET order_info == book.active_orders[order.order_id]
             affects_top == affects_top_levels(book, order_info.side,
                                               order_info.price_scaled)
             b1 == IF order_info.side = SIDE_BID
                   THEN [book EXCEPT !.bid_levels =
                            RemoveFromSide(@, order.order_id, order_info)]
                   ELSE IF order_info.side = SIDE_ASK
                   THEN [book EXCEPT !.ask_levels =
                            RemoveFromSide(@, order.order_id, order_info)]
                   ELSE book
             b2 == [b1 EXCEPT !.active_orders = HashErase(@, order.order_id)]
         IN [book |-> b2, ret |-> affects_top]

\* has this side's map a level with orders at the price
HasLevel(m, price_scaled) ==
    LET i == MapFind(m, price_scaled) IN
    ~(i = 0 \/ m[i].level.order_count = 0)

\* effective_side that never leaves the declared side
effective_side_declared(book, order) == order.side

\* effective_side of process_trade
effective_side(book, order) ==
    IF order.side = SIDE_ASK
    THEN IF ~HasLevel(book.ask_levels, order.price_scaled)
         THEN SIDE_BID ELSE order.side
    ELSE IF order.side = SIDE_BID
    THEN IF ~HasLevel(book.bid_levels, order.price_scaled)
         THEN SIDE_ASK ELSE order.side
    ELSE order.side

\* process_trade that leaves the report to the Cancel leg of the trade
process_trade_quiet(book, order) == [book |-> book, ret |-> FALSE]

\* process_trade that looks a Neutral trade up on both sides
process_trade_neutral(book, order) ==
    IF order.side = SIDE_NEUTRAL
    THEN [book |-> book,
          ret |-> \/ affects_top_levels(book, SIDE_BID, order.price_scaled)
                  \/ affects_top_levels(book, SIDE_ASK, order.price_scaled)]
    ELSE [book |-> book,
          ret |-> affects_top_levels(book, effective_side(book, order),
                                     order.price_scaled)]

\* process_trade that takes the traded level out of the book
process_trade_consume(book, order) ==
    IF order.side = SIDE_NEUTRAL
    THEN [book |-> book, ret |-> FALSE]
    ELSE LET eff == effective_side(book, order)
             b1 == IF eff = SIDE_BID
                      /\ MapFind(book.bid_levels, order.price_scaled) # 0
                   THEN [book EXCEPT !.bid_levels =
                            MapErase(@, MapFind(@, order.price_scaled))]
                   ELSE IF eff = SIDE_ASK
                      /\ MapFind(book.ask_levels, order.price_scaled) # 0
                   THEN [book EXCEPT !.ask_levels =
                            MapErase(@, MapFind(@, order.price_scaled))]
                   ELSE book
         IN [book |-> b1,
             ret |-> affects_top_levels(book, eff, order.price_scaled)]

\* OrderBook::process_trade: [book, ret]
process_trade(book, order) ==
    IF order.side = SIDE_NEUTRAL
    THEN [book |-> book, ret |-> FALSE]
    ELSE [book |-> book,
          ret |-> affects_top_levels(book, effective_side(book, order),
                                     order.price_scaled)]

\* MBPRow::Level
Level(p, s, c) == [price |-> p, size |-> s, count |-> c]
ZeroLevel == Level(get_price(0), 0, 0)

\* the loops of update_bid_levels / update_ask_levels that stop one level
\* early
FillLevels_nine(m) ==
    [i \in 1..MAX_DEPTH |->
        IF i <= Len(m) /\ i < MAX_DEPTH
        THEN Level(get_price(m[i].level.price_scaled),
                   m[i].level.total_size, m[i].level.order_count)
        ELSE ZeroLevel]

\* the loops of update_bid_levels / update_ask_levels over one side's map
FillLevels(m) ==
    [i \in 1..MAX_DEPTH |->
        IF i <= Len(m)
        THEN Level(get_price(m[i].level.price_scaled),
                   m[i].level.total_size, m[i].level.order_count)
        ELSE ZeroLevel]

update_bid_levels(book) == FillLevels(book.bid_levels)
update_ask_levels(book) == FillLevels(book.ask_levels)

\* MBPRow(): the row a default-constructed MBPRow holds
MBPRow ==
    [ts_recv |-> "", ts_event |-> "",
     rtype |-> 10, publisher_id |-> 2, instrument_id |-> 1108,
     action |-> " ", side |-> "N", depth |-> 0, price |-> get_price(0),
     size |-> 0, flags |-> 0, ts_in_delta |-> 0, sequence |-> 0,
     symbol |-> "", order_id |-> 0,
     bid_levels |-> [i \in 1..MAX_DEPTH |-> ZeroLevel],
     ask_levels |-> [i \in 1..MAX_DEPTH |-> ZeroLevel]]

\* generate_mbp_snapshot that forgets ts_in_delta
generate_mbp_snapshot_no_delta(book, triggering_order) ==
    [MBPRow EXCEPT
       !.ts_recv = triggering_order.ts_recv,
       !.ts_event = triggering_order.ts_event,
       !.action = triggering_order.action,
       !.side = triggering_order.side,
       !.price = get_price(triggering_order.price_scaled),
       !.size = triggering_order.size,
       !.flags = triggering_order.flags,
       !.sequence = triggering_order.sequence,
       !.symbol = triggering_order.symbol,
       !.order_id = triggering_order.order_id,
       !.depth = get_price_depth(book, triggering_order.side,
                                 triggering_order.price_scaled),
       !.bid_levels = update_bid_levels(book),
       !.ask_levels = update_ask_levels(book)]

\* OrderBook::generate_mbp_snapshot: the row left in current_mbp_row
generate_mbp_snapshot(book, triggering_order) ==
    [MBPRow EXCEPT
       !.ts_recv = triggering_order.ts_recv,
       !.ts_event = triggering_order.ts_event,
       !.action = triggering_order.action,
       !.side = triggering_order.side,
       !.price = get_price(triggering_order.price_scaled),
       !.size = triggering_order.size,
       !.flags = triggering_order.flags,
       !.ts_in_delta = triggering_order.ts_in_delta,
       !.sequence = triggering_order.sequence,
       !.symbol = triggering_order.symbol,
       !.order_id = triggering_order.order_id,
       !.depth = get_price_depth(book, triggering_order.side,
                                 triggering_order.price_scaled),
       !.bid_levels = update_bid_levels(book),
       !.ask_levels = update_ask_levels(book)]

\* process_order whose snapshot starts from the row generated before: the
\* slots beyond the levels of the book keep what they held
process_order_sticky(book, row, order) ==
    LET r == IF order.action = ACTION_CLEAR
             THEN [book |-> clear(book), ret |-> FALSE]
             ELSE IF order.action = ACTION_ADD THEN add_order(book, order)
             ELSE IF order.action = ACTION_CANCEL THEN cancel_order(book, order)
             ELSE IF order.action = ACTION_TRADE THEN process_trade(book, order)
             ELSE [book |-> book, ret |-> FALSE]
        fresh == generate_mbp_snapshot(r.book, order)
    IN IF r.ret
       THEN [book |-> r.book, generated |-> TRUE,
             row |-> [fresh EXCEPT
                        !.bid_levels =
                            [i \in 1..MAX_DEPTH |->
                                IF i <= Len(r.book.bid_levels)
                                THEN fresh.bid_levels[i]
                                ELSE row.bid_levels[i]],
                        !.ask_levels =
                            [i \in 1..MAX_DEPTH |->
                                IF i <= Len(r.book.ask_levels)
                                THEN fresh.ask_levels[i]
                                ELSE row.ask_levels[i]]]]
       ELSE [book |-> r.book, generated |-> FALSE, row |-> row]

\* process_order that takes the snapshot of the book as it was before the
\* record was applied
process_order_before(book, row, order) ==
    LET r == IF order.action = ACTION_CLEAR
             THEN [book |-> clear(book), ret |-> FALSE]
             ELSE IF order.action = ACTION_ADD THEN add_order(book, order)
             ELSE IF order.action = ACTION_CANCEL THEN cancel_order(book, order)
             ELSE IF order.action = ACTION_TRADE THEN process_trade(book, order)
             ELSE [book |-> book, ret |-> FALSE]
    IN IF r.ret
       THEN [book |-> r.book, generated |-> TRUE,
             row |-> generate_mbp_snapshot(book, order)]
       ELSE [book |-> r.book, generated |-> FALSE, row |-> row]

\* process_order that takes a Fill for the Cancel of the filled order
process_order_fill(book, row, order) ==
    LET r == IF order.action = ACTION_CLEAR
             THEN [book |-> clear(book), ret |-> FALSE]
             ELSE IF order.action = ACTION_ADD THEN add_order(book, order)
             ELSE IF order.action \in {ACTION_CANCEL, ACTION_FILL}
             THEN cancel_order(book, order)
             ELSE IF order.action = ACTION_TRADE THEN process_trade(book, order)
             ELSE [book |-> book, ret |-> FALSE]
    IN IF r.ret
       THEN [book |-> r.book, generated |-> TRUE,
             row |-> generate_mbp_snapshot(r.book, order)]
       ELSE [book |-> r.book, generated |-> FALSE, row |-> row]

\* process_order whose snapshot takes its depth from the book as it was
\* before the record was applied
process_order_depth_before(book, row, order) ==
    LET r == IF order.action = ACTION_CLEAR
             THEN [book |-> clear(book), ret |-> FALSE]
             ELSE IF order.action = ACTION_ADD THEN add_order(book, order)
             ELSE IF order.action = ACTION_CANCEL THEN cancel_order(book, order)
             ELSE IF order.action = ACTION_TRADE THEN process_trade(book, order)
             ELSE [book |-> book, ret |-> FALSE]
    IN IF r.ret
       THEN [book |-> r.book, generated |-> TRUE,
             row |-> [generate_mbp_snapshot(r.book, order) EXCEPT
                        !.depth = get_price_depth(book, order.side,
                                                  order.price_scaled)]]
       ELSE [book |-> r.book, generated |-> FALSE, row |-> row]

\* OrderBook::process_order: [book, generated, row]; row is what
\* current_mbp_row holds afterwards, generated is "the result is not nullptr"
process_order(book, row, order) ==
    LET r == IF order.action = ACTION_CLEAR
             THEN [book |-> clear(book), ret |-> FALSE]
             ELSE IF order.action = ACTION_ADD THEN add_order(book, order)
             ELSE IF order.action = ACTION_CANCEL THEN cancel_order(book, order)
             ELSE IF order.action = ACTION_TRADE THEN process_trade(book, order)
             ELSE [book |-> book, ret |-> FALSE]
    IN IF r.ret
       THEN [book |-> r.book, generated |-> TRUE,
             row |-> generate_mbp_snapshot(r.book, order)]
       ELSE [book |-> r.book, generated |-> FALSE, row |-> row]

\* ------------------------------------------------------------------------
\* CsvReader, CsvWriter
\* ------------------------------------------------------------------------
\* CsvReader::validate_order: the records parse_all_orders keeps
validate_order(order) ==
    /\ order.action \in {"A", "C", "T", "F", "R", "M"}
    /\ order.side \in {"B", "A", "N"}
    /\ order.action # "R" =>
          /\ order.ts_recv # "" /\ order.ts_event # ""
          /\ order.order_id # 0
    /\ ~(order.action \in {ACTION_ADD, ACTION_CLEAR} /\ order.symbol = "")
    /\ order.action = "A" =>
          /\ order.price_scaled # 0 /\ order.size # 0
          /\ ~(get_price(order.price_scaled).nanos <= 0)
          /\ ~PriceAbove(get_price(order.price_scaled), 1000000)
          /\ order.size <= 1000000000

\* CsvWriter::validate_mbp_row
validate_mbp_row(mbp_row) ==
    /\ mbp_row.ts_recv # "" /\ mbp_row.ts_event # ""
    /\ mbp_row.symbol # ""
    /\ mbp_row.action \in {"A", "C", "T", "F", "R"}
    /\ mbp_row.side \in {"B", "A", "N"}
    /\ \A i \in 1..MAX_DEPTH :
          /\ ~(mbp_row.bid_levels[i].price.nanos < 0)
          /\ ~(mbp_row.ask_levels[i].price.nanos < 0)

\* ------------------------------------------------------------------------
\* The input: parse_result.orders
\* ------------------------------------------------------------------------
\* An input record, before its place in the file is known
Order(action, side, price_scaled, size, order_id, symbol, ts) ==
    [ts_recv |-> ts, ts_event |-> ts, action |-> action, side |-> side,
     price_scaled |-> price_scaled, size |-> size, flags |-> 0,
     ts_in_delta |-> 0, sequence |-> 0, symbol |-> symbol,
     order_id |-> order_id]

\* The record as the pos-th of the file: the producer's sequence number and
\* the fields that vary with it
AtPos(o, pos) ==
    [o EXCEPT !.sequence = pos, !.ts_in_delta = 1000 + pos,
              !.flags = 128 + (pos % 2)]

\* The ladder: the k-th record adds order k alone at a price of its own,
\* bids (odd k) downwards from 19, asks (even k) upwards from 21, so that
\* after 2n records each side holds n levels.
LadderLevel(k) == (k + 1) \div 2
LadderOrder(k) ==
    IF k % 2 = 1
    THEN Order("A", "B", 20 - LadderLevel(k), LadderLevel(k), k, "ES", "ts")
    ELSE Order("A", "A", 20 + LadderLevel(k), LadderLevel(k), k, "ES", "ts")

\* the ladder lengths after which other records may follow
LadderStops == {0, 2 * MAX_DEPTH, 2 * MaxLadder}

\* The records that may follow the ladder name the ladder's first order
\* (the best bid) or an order the ladder never added.
FreeIds == {1, 2 * MaxLadder + 1}
\* A bid is priced below the ladder's bids (1), on its second bid level (18)
\* or above all its bids (22); an ask above the ladder's asks (40), on its
\* second ask level (22) or below all its asks (18).
BidPrices == {1, 18, 22}
AskPrices == {18, 22, 40}
FreePrices == BidPrices \cup AskPrices
\* A Cancel is looked up by its id alone; the price it carries is one of the
\* two that bids and asks share.
CancelPrices == BidPrices \cap AskPrices
AddSizes == {1, 2}
Sides == {"B", "A", "N"}

RawOrders ==
    {Order("A", "B", p, z, id, sym, "ts") :
        p \in BidPrices \cup {0}, z \in AddSizes \cup {0},
        id \in FreeIds, sym \in {"ES", ""}}
    \cup {Order("A", "A", p, z, id, sym, "ts") :
        p \in AskPrices \cup {0}, z \in AddSizes \cup {0},
        id \in FreeIds, sym \in {"ES", ""}}
    \cup {Order("A", "N", 18, 1, id, "ES", "ts") : id \in FreeIds}
    \cup {Order("C", s, p, 1, id, "ES", "ts") :
        s \in {"B", "A"}, p \in CancelPrices, id \in FreeIds}
    \cup {Order("C", "B", 18, 1, id, "", "ts") : id \in FreeIds}
    \cup {Order("T", s, p, 1, id, "ES", "ts") :
        s \in Sides, p \in FreePrices, id \in {0, 1}}
    \cup {Order("T", s, 18, 1, 1, "", "ts") : s \in {"B", "A"}}
    \cup {Order(a, "N", 0, 0, 1, "ES", ts) :
        a \in {"F", "M", "X"}, ts \in {"ts", ""}}
    \cup {Order("R", "N", 0, 0, 0, sym, "") : sym \in {"ES", ""}}

\* CsvReader::parse_all_orders keeps the records validate_order accepts
ParsedOrders == {o \in RawOrders : validate_order(o)}

\* ------------------------------------------------------------------------
\* State
\* ------------------------------------------------------------------------
VARIABLES
    bid_levels,           \* OrderBook::bid_levels
    ask_levels,           \* OrderBook::ask_levels
    active_orders,        \* OrderBook::active_orders
    current_mbp_row,      \* OrderBook::current_mbp_row
    first_clear_ignored,  \* process_reconstruction: first_clear_ignored
    row_index,            \* CsvWriter::row_index
    last_line,            \* the line write_mbp_row appended last
    written,              \* the output file: first column and sequence per line
    status,               \* "running", or "failed" after return 1
    fed,                  \* records consumed: [ladder, free]
    pending,              \* records still to come after a Trade: its legs
    pc,                   \* "next": about to take a record; "body": one processed
    order,                \* the loop variable of the iteration
    mbp_row,              \* what process_order returned in the iteration
    pre,                  \* book, flag and row_index when the iteration began
    prev                  \* the Add of the iteration before, and the book it met

vars == <<bid_levels, ask_levels, active_orders, current_mbp_row,
          first_clear_ignored, row_index, last_line, written, status, fed,
          pending, pc, order, mbp_row, pre, prev>>

Book == [bid_levels |-> bid_levels, ask_levels |-> ask_levels,
         active_orders |-> active_orders]

Pre(book, flag, index) ==
    [book |-> book, first_clear_ignored |-> flag, row_index |-> index]

NoOrder == Order(" ", "N", 0, 0, 0, "", "")
NoLine == [index |-> -1, row |-> MBPRow]
NoPrev == [order |-> NoOrder, book |-> EmptyBook]

Init ==
    /\ bid_levels = << >>
    /\ ask_levels = << >>
    /\ active_orders = EmptyHash
    /\ current_mbp_row = MBPRow
    /\ first_clear_ignored = FALSE
    /\ row_index = 0
    /\ last_line = NoLine
    /\ written = << >>
    /\ status = "running"
    /\ fed = [ladder |-> 0, free |-> 0]
    /\ pending = << >>
    /\ pc = "next"
    /\ order = NoOrder
    /\ mbp_row = "unset"
    /\ pre = Pre(EmptyBook, FALSE, 0)
    /\ prev = NoPrev

\* position in the file of the next record
NextPos == fed.ladder + fed.free + 1

\* write_mbp_row that formats what the buffer held before the call that
\* returned the row
write_mbp_row_stale(row) ==
    IF validate_mbp_row(row)
    THEN /\ last_line' = [index |-> row_index, row |-> current_mbp_row]
         /\ written' = Append(written, [index |-> row_index,
                                         sequence |-> row.sequence])
         /\ row_index' = row_index + 1
         /\ status' = status
    ELSE /\ status' = "failed"
         /\ UNCHANGED <<last_line, written, row_index>>

\* write_mbp_row that counts the row before it formats it
write_mbp_row_counted(row) ==
    IF validate_mbp_row(row)
    THEN /\ last_line' = [index |-> row_index + 1, row |-> row]
         /\ written' = Append(written, [index |-> row_index + 1,
                                         sequence |-> row.sequence])
         /\ row_index' = row_index + 1
         /\ status' = status
    ELSE /\ status' = "failed"
         /\ UNCHANGED <<last_line, written, row_index>>

\* CsvWriter::write_mbp_row on an open stream
write_mbp_row(row) ==
    IF validate_mbp_row(row)
    THEN /\ last_line' = [index |-> row_index, row |-> row]
         /\ written' = Append(written, [index |-> row_index,
                                         sequence |-> row.sequence])
         /\ row_index' = row_index + 1
         /\ status' = status
    ELSE /\ status' = "failed"
         /\ UNCHANGED <<last_line, written, row_index>>

\* a loop with no special case for the first Clear
is_initial_clear_never(flag, o) == FALSE

\* the test that sets the first Clear apart in process_reconstruction
is_initial_clear(flag, o) == ~flag /\ o.action = ACTION_CLEAR

\* the body of the loop of process_reconstruction for record o
Iteration(o) ==
    /\ status = "running"
    /\ pc = "next"
    /\ pc' = "body"
    /\ order' = o
    /\ pre' = Pre(Book, first_clear_ignored, row_index)
    /\ prev' = prev
    /\ IF is_initial_clear(first_clear_ignored, o)
       THEN /\ first_clear_ignored' = TRUE
            /\ mbp_row' = "skipped"
            /\ UNCHANGED <<bid_levels, ask_levels, active_orders,
                           current_mbp_row, row_index, last_line, written,
                           status>>
       ELSE LET r == process_order(Book, current_mbp_row, o) IN
            /\ bid_levels' = r.book.bid_levels
            /\ ask_levels' = r.book.ask_levels
            /\ active_orders' = r.book.active_orders
            /\ current_mbp_row' = r.row
            /\ first_clear_ignored' = first_clear_ignored
            /\ IF r.generated
               THEN /\ mbp_row' = "row"
                    /\ write_mbp_row(r.row)
               ELSE /\ mbp_row' = "nullptr"
                    /\ UNCHANGED <<row_index, last_line, written, status>>

\* the record is the next one of the ladder
Ladder ==
    /\ fed.free = 0
    /\ fed.ladder < 2 * MaxLadder
    /\ Iteration(AtPos(LadderOrder(fed.ladder + 1), NextPos))
    /\ fed' = [fed EXCEPT !.ladder = @ + 1]
    /\ pending' = pending

\* the parsed records of one action
Records(a) == {o \in ParsedOrders : o.action = a}

\* may a record other than the ladder's come next
CanFollow == fed.ladder \in LadderStops /\ fed.free < MaxFree

\* record o follows the ladder
Follow(o) ==
    /\ Iteration(AtPos(o, NextPos))
    /\ fed' = [fed EXCEPT !.free = @ + 1]
    /\ pending' = pending

Clear ==
    /\ CanFollow
    /\ \E o \in Records(ACTION_CLEAR) : Follow(o)

Add ==
    /\ CanFollow
    /\ \E o \in Records(ACTION_ADD) : Follow(o)

Cancel ==
    /\ CanFollow
    /\ \E o \in Records(ACTION_CANCEL) : Follow(o)

Trade ==
    /\ CanFollow
    /\ \E o \in Records(ACTION_TRADE) : Follow(o)

Fill ==
    /\ CanFollow
    /\ \E o \in Records(ACTION_FILL) : Follow(o)

Modify ==
    /\ CanFollow
    /\ \E o \in Records("M") : Follow(o)

\* the loop goes on to the next record: order and mbp_row leave scope
Advance ==
    /\ status = "running"
    /\ pc = "body"
    /\ pc' = "next"
    /\ order' = NoOrder
    /\ mbp_row' = "unset"
    /\ pre' = Pre(EmptyBook, FALSE, 0)
    /\ prev' = IF order.action = ACTION_ADD
               THEN [order |-> order, book |-> pre.book]
               ELSE NoPrev
    /\ UNCHANGED <<bid_levels, ask_levels, active_orders, current_mbp_row,
                   first_clear_ignored, row_index, last_line, written, status,
                   fed, pending>>

Next == Ladder \/ Clear \/ Add \/ Cancel \/ Trade \/ Fill \/ Modify \/ Advance

Spec == Init /\ [][Next]_vars

\* ------------------------------------------------------------------------
\* The whole run on an input that is a ladder followed by a Trade against
\* one of the ladder's orders and by the Fill and the Cancel of that order
\* ------------------------------------------------------------------------
\* The records T, F, C for resting order k of the ladder, the Trade declared
\* on side s
TradeLegs(k, s) ==
    LET resting == LadderOrder(k) IN
    <<Order("T", s, resting.price_scaled, resting.size, k, "ES", "ts"),
      Order("F", resting.side, resting.price_scaled, resting.size, k, "ES",
            "ts"),
      Order("C", resting.side, resting.price_scaled, resting.size, k, "ES",
            "ts")>>

\* the ladder is followed by a Trade at the price of one of its orders
TradeOfResting ==
    /\ fed.free = 0
    /\ pending = << >>
    /\ \E k \in 1..fed.ladder, s \in {"B", "A"} :
          /\ \A i \in 1..3 : validate_order(TradeLegs(k, s)[i])
          /\ Iteration(AtPos(TradeLegs(k, s)[1], NextPos))
          /\ pending' = Tail(TradeLegs(k, s))
    /\ fed' = [fed EXCEPT !.free = @ + 1]

\* the next leg of the Trade: the Fill, then the Cancel
Leg ==
    /\ pending # << >>
    /\ Iteration(AtPos(Head(pending), NextPos))
    /\ pending' = Tail(pending)
    /\ fed' = [fed EXCEPT !.free = @ + 1]

\* the input has no further record: process_reconstruction returns 1 when
\* nothing was parsed, else it leaves the loop, flushes and returns 0
EndOfInput ==
    /\ status = "running"
    /\ pc = "next"
    /\ pending = << >>
    /\ status' = IF NextPos = 1 THEN "no_input" ELSE "done"
    /\ UNCHANGED <<bid_levels, ask_levels, active_orders, current_mbp_row,
                   first_clear_ignored, row_index, last_line, written, fed,
                   pending, pc, order, mbp_row, pre, prev>>

NextLegs == Ladder \/ TradeOfResting \/ Leg \/ EndOfInput \/ Advance

SpecLegs == Init /\ [][NextLegs]_vars

\* ------------------------------------------------------------------------
\* The whole run on an input that is a ladder followed by Adds and Cancels
\* of one order id, on the levels and sides of two orders of the ladder
\* ------------------------------------------------------------------------
\* the id the records name: the ladder's second bid, resting at 18 with
\* size 2
ReuseId == 3
\* the prices of the ladder's first two bids; an ask at either is the best
\* ask
ReusePrices == {18, 19}

ReuseOrders ==
    {Order("A", s, p, z, ReuseId, "ES", "ts") :
        s \in {"B", "A"}, p \in ReusePrices, z \in AddSizes}
    \cup {Order("C", "B", 18, z, ReuseId, "ES", "ts") : z \in AddSizes}

\* the records of one action that the reader keeps
ReuseRecords(a) == {o \in ReuseOrders : validate_order(o) /\ o.action = a}

\* may a record naming the id come next
CanReuse == fed.ladder \in LadderStops /\ fed.free < MaxReuse

ReuseAdd ==
    /\ CanReuse
    /\ \E o \in ReuseRecords(ACTION_ADD) : Follow(o)

ReuseCancel ==
    /\ CanReuse
    /\ \E o \in ReuseRecords(ACTION_CANCEL) : Follow(o)

NextReuse == Ladder \/ ReuseAdd \/ ReuseCancel \/ Advance

SpecReuse == Init /\ [][NextReuse]_vars

\* ------------------------------------------------------------------------
\* The book on its own: OrderBook::process_order called with records that
\* no reader has filtered and no writer follows
\* ------------------------------------------------------------------------
\* one call of OrderBook::process_order with record o
Call(o) ==
    /\ pc = "next"
    /\ pc' = "body"
    /\ order' = o
    /\ pre' = Pre(Book, first_clear_ignored, row_index)
    /\ prev' = prev
    /\ LET r == process_order(Book, current_mbp_row, o) IN
         /\ bid_levels' = r.book.bid_levels
         /\ ask_levels' = r.book.ask_levels
         /\ active_orders' = r.book.active_orders
         /\ current_mbp_row' = r.row
         /\ mbp_row' = IF r.generated THEN "row" ELSE "nullptr"
    /\ UNCHANGED <<first_clear_ignored, row_index, last_line, written,
                   status>>

\* the records of one action, valid for the reader or not
RawRecords(a) == {o \in RawOrders : o.action = a}

\* the records whose action process_order has no case for
OtherRecords == {o \in RawOrders : o.action \notin {"A", "C", "T", "R"}}

\* may a call other than the ladder's come next
CanCall == fed.ladder \in LadderStops /\ fed.free < MaxCalls

CallLadder ==
    /\ fed.free = 0
    /\ fed.ladder < 2 * MaxLadder
    /\ Call(AtPos(LadderOrder(fed.ladder + 1), NextPos))
    /\ fed' = [fed EXCEPT !.ladder = @ + 1]
    /\ pending' = pending

CallFollow(o) ==
    /\ Call(AtPos(o, NextPos))
    /\ fed' = [fed EXCEPT !.free = @ + 1]
    /\ pending' = pending

CallClear ==
    /\ CanCall
    /\ \E o \in RawRecords(ACTION_CLEAR) : CallFollow(o)

CallAdd ==
    /\ CanCall
    /\ \E o \in RawRecords(ACTION_ADD) : CallFollow(o)

CallCancel ==
    /\ CanCall
    /\ \E o \in RawRecords(ACTION_CANCEL) : CallFollow(o)

CallTrade ==
    /\ CanCall
    /\ \E o \in RawRecords(ACTION_TRADE) : CallFollow(o)

CallOther ==
    /\ CanCall
    /\ \E o \in OtherRecords : CallFollow(o)

NextBook ==
    CallLadder \/ CallClear \/ CallAdd \/ CallCancel \/ CallTrade
        \/ CallOther \/ Advance

SpecBook == Init /\ [][NextBook]_vars

\* ------------------------------------------------------------------------
\* Vocabulary of the properties
\* ------------------------------------------------------------------------
\* an iteration of the loop has just run on `order`, from the book pre.book
Processed == pc = "body"
Emitted == mbp_row = "row"

SideMap(book, side) == IF side = "B" THEN book.bid_levels ELSE book.ask_levels
HasKey(m, p) == \E i \in 1..Len(m) : m[i].key = p
At(m, p) == m[CHOOSE i \in 1..Len(m) : m[i].key = p].level
Opposite(side) == IF side = "B" THEN "A" ELSE "B"

\* is price q a better price than p on this side
Better(side, q, p) == IF side = "B" THEN q > p ELSE q < p

\* number of prices of the side that are better than p
RankOf(book, side, p) ==
    LET m == SideMap(book, side) IN
    Cardinality({m[i].key : i \in {j \in 1..Len(m) : Better(side, m[j].key, p)}})

\* p is one of the 10 best prices of the side
InTop10(book, side, p) ==
    /\ side \in {"B", "A"}
    /\ HasKey(SideMap(book, side), p)
    /\ RankOf(book, side, p) < 10

\* number of occurrences of x in s
Occurrences(s, x) == Cardinality({i \in 1..Len(s) : s[i] = x})

ValidAdd(o) ==
    o.action = "A" /\ o.side \in {"B", "A"} /\ o.price_scaled > 0 /\ o.size > 0

\* ------------------------------------------------------------------------
\* C1..C10
\* ------------------------------------------------------------------------
\* C1: a valid Add (side B or A, price > 0, size > 0) puts the order in the
\* order index with its side, price and size and in the level at (side,
\* price), which it creates when absent, and a snapshot is emitted if and
\* only if that price is one of the 10 best prices of its side after the
\* insertion.
C1_AddInsertsAndEmitsIffTop10 ==
    (Processed /\ ValidAdd(order)) =>
        LET p == order.price_scaled
            m0 == SideMap(pre.book, order.side)
            m1 == SideMap(Book, order.side)
        IN /\ order.order_id \in DOMAIN active_orders
           /\ active_orders[order.order_id] =
                 [side |-> order.side, price_scaled |-> p, size |-> order.size]
           /\ HasKey(m1, p)
           /\ IF HasKey(m0, p)
              THEN At(m1, p) =
                     [price_scaled |-> At(m0, p).price_scaled,
                      total_size |-> At(m0, p).total_size + order.size,
                      order_count |-> At(m0, p).order_count + 1,
                      order_ids |-> Append(At(m0, p).order_ids, order.order_id)]
              ELSE At(m1, p) =
                     [price_scaled |-> p, total_size |-> order.size,
                      order_count |-> 1, order_ids |-> <<order.order_id>>]
           /\ Emitted <=> InTop10(Book, order.side, p)

\* an Add that creates a level at rank 11 or worse of its side: no snapshot
C1_Witness ==
    /\ Processed /\ ValidAdd(order)
    /\ ~HasKey(SideMap(pre.book, order.side), order.price_scaled)
    /\ RankOf(Book, order.side, order.price_scaled) >= 10
    /\ ~Emitted

\* C2: a Cancel of a live order id takes the order out of the order index
\* and out of its level, deletes the level when that was its last order, and
\* a snapshot is emitted if and only if the order's level was one of the 10
\* best of its side before the removal.
C2_CancelRemovesAndEmitsIffTop10Before ==
    (Processed /\ order.action = "C"
       /\ order.order_id \in DOMAIN pre.book.active_orders) =>
        LET info == pre.book.active_orders[order.order_id]
            p == info.price_scaled
            m0 == SideMap(pre.book, info.side)
            m1 == SideMap(Book, info.side)
        IN /\ order.order_id \notin DOMAIN active_orders
           /\ HasKey(m0, p)
           /\ IF At(m0, p).order_count = 1
              THEN ~HasKey(m1, p)
              ELSE /\ HasKey(m1, p)
                   /\ At(m1, p).order_count = At(m0, p).order_count - 1
                   /\ At(m1, p).total_size = At(m0, p).total_size - info.size
                   /\ Occurrences(At(m1, p).order_ids, order.order_id) =
                        Occurrences(At(m0, p).order_ids, order.order_id) - 1
           /\ Emitted <=> InTop10(pre.book, info.side, p)

\* a Cancel of the only order of a top-10 level: level deleted, snapshot
C2_Witness ==
    /\ Processed /\ order.action = "C"
    /\ order.order_id \in DOMAIN pre.book.active_orders
    /\ LET info == pre.book.active_orders[order.order_id] IN
          /\ Len(SideMap(pre.book, info.side)) > 10
          /\ ~HasKey(SideMap(Book, info.side), info.price_scaled)
    /\ Emitted

\* C3: a Trade leaves bids, asks and the order index as they were, whatever
\* its declared side and whatever the book.
C3_TradeLeavesBook ==
    (Processed /\ order.action = "T") => Book = pre.book

\* a Trade on a book with levels on both sides that emitted a snapshot
C3_Witness ==
    /\ Processed /\ order.action = "T" /\ Emitted
    /\ Len(bid_levels) > 0 /\ Len(ask_levels) > 0

\* C4: for a Trade with declared side Ask or Bid at price p the effective
\* side is the declared side when that side has a level at p and the other
\* side otherwise, and a snapshot is emitted if and only if p is one of the
\* 10 best prices of the effective side.
C4_TradeEmitsIffEffectiveTop10 ==
    (Processed /\ order.action = "T" /\ order.side \in {"A", "B"}) =>
        LET p == order.price_scaled
            eff == IF HasKey(SideMap(pre.book, order.side), p)
                   THEN order.side ELSE Opposite(order.side)
        IN Emitted <=> InTop10(pre.book, eff, p)

\* a Trade declared Bid at a price only the asks hold: snapshot
C4_Witness ==
    /\ Processed /\ order.action = "T" /\ order.side = "B"
    /\ ~HasKey(pre.book.bid_levels, order.price_scaled)
    /\ InTop10(pre.book, "A", order.price_scaled)
    /\ Emitted

\* C5: for a Trade with declared side Ask at price p, no ask level at p and
\* a bid level at p within the top 10, the snapshot has side 'A' and its
\* depth is the 0-based rank of p on the Bid side.
C5_TradeDepthOnEffectiveSide ==
    (Processed /\ order.action = "T" /\ order.side = "A"
       /\ ~HasKey(pre.book.ask_levels, order.price_scaled)
       /\ InTop10(pre.book, "B", order.price_scaled)) =>
        /\ Emitted
        /\ current_mbp_row.side = "A"
        /\ current_mbp_row.depth = RankOf(pre.book, "B", order.price_scaled)

\* C6: the first Clear seen while the flag is unset sets the flag, leaves
\* bids, asks and the order index unchanged and emits no snapshot; so when
\* the input is a Clear followed by a bid Add there is exactly one snapshot,
\* the Add's, with row index 0.
C6_InitialClearRule ==
    /\ (Processed /\ order.action = "R" /\ ~pre.first_clear_ignored) =>
          /\ first_clear_ignored
          /\ Book = pre.book
          /\ ~Emitted
          /\ row_index = pre.row_index
    /\ (Processed /\ fed = [ladder |-> 0, free |-> 2] /\ ValidAdd(order)
          /\ order.side = "B" /\ first_clear_ignored) =>
          /\ Emitted
          /\ row_index = 1
          /\ last_line.index = 0
          /\ last_line.row.order_id = order.order_id
          /\ last_line.row.sequence = 2

\* the first Clear arrives when both sides hold levels
C6_Witness ==
    /\ Processed /\ order.action = "R" /\ ~pre.first_clear_ignored
    /\ first_clear_ignored
    /\ Len(bid_levels) >= 10 /\ Len(ask_levels) >= 10

\* C7: after any Clear the loop has processed, bids, asks and the order
\* index are empty.
C7_ClearEmptiesBook ==
    (Processed /\ order.action = "R") => Book = EmptyBook

\* C8: every Clear after the first one empties bids, asks and the order
\* index and emits no snapshot, whatever the book held.
C8_LaterClearEmpties ==
    (Processed /\ order.action = "R" /\ pre.first_clear_ignored) =>
        /\ bid_levels = << >>
        /\ ask_levels = << >>
        /\ DOMAIN active_orders = {}
        /\ ~Emitted
        /\ row_index = pre.row_index

\* a second Clear on a book with levels on both sides
C8_Witness ==
    /\ Processed /\ order.action = "R" /\ pre.first_clear_ignored
    /\ Len(pre.book.bid_levels) >= 10 /\ Len(pre.book.ask_levels) >= 10
    /\ DOMAIN pre.book.active_orders # {}

\* C9: after every prefix of the input each entry of the order index names
\* a level that exists on that side at that price and lists the order id.
C9_IndexPointsToLevel ==
    \A id \in DOMAIN active_orders :
        LET info == active_orders[id]
            m == SideMap(Book, info.side)
        IN /\ info.side \in {"B", "A"}
           /\ HasKey(m, info.price_scaled)
           /\ Occurrences(At(m, info.price_scaled).order_ids, id) >= 1

\* an Add of an id that was live, at another place than the one it had
C9_Witness ==
    /\ Processed /\ ValidAdd(order)
    /\ order.order_id \in DOMAIN pre.book.active_orders
    /\ active_orders[order.order_id] # pre.book.active_orders[order.order_id]

\* C10: after every prefix of the input every order id a level lists has an
\* entry in the order index whose side and price are that level's, and the
\* level lists it once.
C10_LevelIdsAreIndexed ==
    \A side \in {"B", "A"} :
        LET m == SideMap(Book, side) IN
        \A i \in 1..Len(m) :
            \A k \in 1..Len(m[i].level.order_ids) :
                LET id == m[i].level.order_ids[k] IN
                /\ id \in DOMAIN active_orders
                /\ active_orders[id].side = side
                /\ active_orders[id].price_scaled = m[i].key
                /\ Occurrences(m[i].level.order_ids, id) = 1

\* ------------------------------------------------------------------------
\* C11..C20
\* ------------------------------------------------------------------------
\* the ids that the levels of one side list
Listed(m) ==
    UNION {{m[i].level.order_ids[k] : k \in 1..Len(m[i].level.order_ids)} :
              i \in 1..Len(m)}

\* sum over the ids a level lists of the size the order index records for
\* the id (nothing for an id the index does not hold)
RECURSIVE IndexedSize(_, _)
IndexedSize(ids, index) ==
    IF ids = << >> THEN 0
    ELSE (IF Head(ids) \in DOMAIN index THEN index[Head(ids)].size ELSE 0)
         + IndexedSize(Tail(ids), index)

\* C11: between events no level with order_count = 0 is present in bids or
\* asks, and every level present has order_count = |order_ids| > 0.
C11_NoEmptyLevel ==
    \A side \in {"B", "A"} :
        LET m == SideMap(Book, side) IN
        \A i \in 1..Len(m) :
            /\ m[i].level.order_count # 0
            /\ m[i].level.order_count = Len(m[i].level.order_ids)
            /\ m[i].level.order_count > 0

\* a Cancel took the last order of a level, which is gone, while another
\* level of that side holds two orders
C11_Witness ==
    /\ Processed /\ order.action = "C"
    /\ order.order_id \in DOMAIN pre.book.active_orders
    /\ LET info == pre.book.active_orders[order.order_id]
           m0 == SideMap(pre.book, info.side)
           m1 == SideMap(Book, info.side)
       IN /\ HasKey(m0, info.price_scaled)
          /\ At(m0, info.price_scaled).order_count = 1
          /\ ~HasKey(m1, info.price_scaled)
          /\ \E i \in 1..Len(m1) : m1[i].level.order_count = 2

\* C12: after every prefix of the input each level's total_size is the sum
\* of the sizes that the order index records for the orders the level lists.
C12_TotalSizeIsIndexedSum ==
    \A side \in {"B", "A"} :
        LET m == SideMap(Book, side) IN
        \A i \in 1..Len(m) :
            m[i].level.total_size =
                IndexedSize(m[i].level.order_ids, active_orders)

\* C13: after every prefix of the input no order id is listed by a bid
\* level and by an ask level at the same time.
C13_SidesDisjoint ==
    Listed(bid_levels) \cap Listed(ask_levels) = {}

\* the record processed is Cancel(id, s, p, sz) and the record before it
\* was Add(id, s, p, sz)
CancelOfPrevAdd ==
    /\ Processed /\ order.action = "C"
    /\ prev.order.action = "A"
    /\ order.order_id = prev.order.order_id
    /\ order.side = prev.order.side
    /\ order.price_scaled = prev.order.price_scaled
    /\ order.size = prev.order.size

\* C14: round trip R1: Add(id, s, p, sz) followed by Cancel(id, s, p, sz),
\* applied to any reachable book, leaves bids, asks and the order index as
\* they were before the Add.
C14_AddCancelRoundTrip ==
    CancelOfPrevAdd => Book = prev.book

\* C14 as amended: the round trip restores bids, asks and the order index
\* when the id is not in the order index before the Add.
C14_AddCancelRoundTripFreshId ==
    (CancelOfPrevAdd
       /\ order.order_id \notin DOMAIN prev.book.active_orders) =>
        Book = prev.book

\* the Add joined a level that other orders held, and the Cancel gave a
\* snapshot
C14_Witness ==
    /\ CancelOfPrevAdd
    /\ order.order_id \notin DOMAIN prev.book.active_orders
    /\ HasKey(SideMap(prev.book, order.side), order.price_scaled)
    /\ Len(SideMap(prev.book, order.side)) >= 10
    /\ Emitted

\* C15: a Cancel for an id that is not in the order index (never added,
\* already cancelled, or the second of two identical Cancels) emits no
\* snapshot and leaves bids, asks and the order index unchanged.
C15_CancelUnknownIsNoOp ==
    (Processed /\ order.action = "C"
       /\ order.order_id \notin DOMAIN pre.book.active_orders) =>
        /\ ~Emitted
        /\ Book = pre.book
        /\ row_index = pre.row_index
        /\ status = "running"

\* the second of two identical Cancels of the ladder's best bid: the first
\* one removed the order and left its snapshot in current_mbp_row
C15_Witness ==
    /\ Processed /\ order.action = "C"
    /\ order.order_id \notin DOMAIN pre.book.active_orders
    /\ Len(pre.book.bid_levels) >= MAX_DEPTH - 1
    /\ current_mbp_row.action = "C"
    /\ current_mbp_row.order_id = order.order_id
    /\ current_mbp_row.side = order.side
    /\ current_mbp_row.price = get_price(order.price_scaled)
    /\ current_mbp_row.size = order.size
    /\ current_mbp_row.symbol = order.symbol
    /\ current_mbp_row.sequence = order.sequence - 1

\* an Add that add_order has to reject
RejectedAdd(o) ==
    /\ o.action = "A"
    /\ o.side \notin {"B", "A"} \/ o.price_scaled = 0 \/ o.size = 0

\* C16: an Add whose side is not B or A, or whose price is 0, or whose size
\* is 0, is rejected: no snapshot, and bids, asks and the order index (a
\* live order with the same id included) stay as they were.
C16_BadAddRejected ==
    (Processed /\ RejectedAdd(order)) =>
        /\ ~Emitted
        /\ Book = pre.book

\* an Add with price 0 and the id of a live order, on a book of 10 or more
\* levels per side
C16_Witness ==
    /\ Processed /\ order.action = "A"
    /\ order.side \in {"B", "A"} /\ order.price_scaled = 0 /\ order.size > 0
    /\ order.order_id \in DOMAIN pre.book.active_orders
    /\ active_orders[order.order_id] = pre.book.active_orders[order.order_id]
    /\ Len(bid_levels) >= MAX_DEPTH /\ Len(ask_levels) >= MAX_DEPTH

\* C17: a Trade with side Neutral is ignored: no snapshot and nothing
\* changes, also when its price is a top-10 level of a side.
C17_NeutralTradeIgnored ==
    (Processed /\ order.action = "T" /\ order.side = "N") =>
        /\ ~Emitted
        /\ Book = pre.book
        /\ row_index = pre.row_index
        /\ status = "running"

\* a Neutral Trade at a price that is a top-10 level of the bids
C17_Witness ==
    /\ Processed /\ order.action = "T" /\ order.side = "N"
    /\ InTop10(pre.book, "B", order.price_scaled)
    /\ Len(pre.book.ask_levels) >= MAX_DEPTH

\* C18: Fill, Modify and any unrecognized action are no-ops: no snapshot,
\* and bids, asks and the order index stay as they were.
C18_OtherActionsAreNoOps ==
    (Processed /\ order.action \notin {"A", "C", "T", "R"}) =>
        /\ ~Emitted
        /\ Book = pre.book
        /\ current_mbp_row.sequence # order.sequence

\* a Fill that names a live order of a top-10 level
C18_Witness ==
    /\ Processed /\ order.action = "F"
    /\ order.order_id \in DOMAIN pre.book.active_orders
    /\ InTop10(pre.book, pre.book.active_orders[order.order_id].side,
               pre.book.active_orders[order.order_id].price_scaled)
    /\ Len(bid_levels) >= MAX_DEPTH /\ Len(ask_levels) >= MAX_DEPTH

\* C19: the k-th snapshot written (k = 0, 1, 2, ...) carries row index k,
\* with no gap and no repeat; the rows are written in the input order of
\* the records that triggered them, at most one row per record.
C19_RowIndexDenseInInputOrder ==
    /\ \A k \in 1..Len(written) : written[k].index = k - 1
    /\ \A k \in 1..(Len(written) - 1) :
          written[k].sequence < written[k + 1].sequence
    /\ \A k \in 1..Len(written) :
          written[k].sequence \in 1..(fed.ladder + fed.free)
    /\ Len(written) = row_index
    /\ Processed =>
          IF Len(written) = pre.row_index
          THEN ~Emitted \/ status = "failed"
          ELSE /\ Len(written) = pre.row_index + 1
               /\ Emitted
               /\ written[Len(written)].sequence = order.sequence
               /\ last_line.index = pre.row_index
               /\ last_line.row.sequence = order.sequence

\* rows of the whole ladder, then a row of a later record, with records in
\* between that gave no row
C19_Witness ==
    /\ Len(written) > 2 * MAX_DEPTH
    /\ \E k \in 1..(Len(written) - 1) :
          written[k + 1].sequence > written[k].sequence + 1

\* the 10 best levels of one side as (price, size, count)
TopTen(m) ==
    [i \in 1..(IF Len(m) < 10 THEN Len(m) ELSE 10) |->
        <<m[i].key, m[i].level.total_size, m[i].level.order_count>>]

\* the record processed changed the 10 best levels of a side
TopTenChanged ==
    \/ TopTen(bid_levels) # TopTen(pre.book.bid_levels)
    \/ TopTen(ask_levels) # TopTen(pre.book.ask_levels)

\* C20: an input event yields a snapshot if and only if it changes the
\* top-10 levels (price, size, count) of either side.
C20_SnapshotIffTopTenChanged ==
    Processed => (Emitted <=> TopTenChanged)

\* C20 as amended: an Add or a Cancel yields a snapshot if and only if it
\* changes the top-10 levels (price, size, count) of either side.
C20_AddCancelSnapshotIffTopTenChanged ==
    (Processed /\ order.action \in {"A", "C"}) =>
        (Emitted <=> TopTenChanged)

\* a Cancel that takes an order out of the 11th level of its side: the book
\* changes, its 10 best levels do not, and there is no snapshot
C20_Witness ==
    /\ Processed /\ order.action = "C"
    /\ order.order_id \in DOMAIN pre.book.active_orders
    /\ Book # pre.book
    /\ ~TopTenChanged
    /\ ~Emitted

\* ------------------------------------------------------------------------
\* C21..C30
\* ------------------------------------------------------------------------
\* the slots of one side of a snapshot
Slots(row, side) == IF side = "B" THEN row.bid_levels ELSE row.ask_levels

\* a slot that holds a level
Populated(slot) == slot.count > 0

\* the slot holds the level of the side that has exactly `rank` better
\* prices: its price, its total size and its order count
SlotHoldsRank(book, side, slot, rank) ==
    LET m == SideMap(book, side)
        p == slot.price.nanos
        at == {j \in 1..Len(m) : m[j].key = p}
    IN /\ slot.price.per = 1000000000
       /\ at # {}
       /\ Cardinality({j \in 1..Len(m) : Better(side, m[j].key, p)}) = rank
       /\ \A j \in at : /\ slot.size = m[j].level.total_size
                         /\ slot.count = m[j].level.order_count

\* the slot is (0, 0, 0)
SlotIsZero(slot) ==
    slot = [price |-> [nanos |-> 0, per |-> 1000000000],
            size |-> 0, count |-> 0]

\* slot i (from 1) of the side is what a snapshot of this book has to hold
SlotAsExpected(book, side, slots, i) ==
    IF i <= Len(SideMap(book, side))
    THEN SlotHoldsRank(book, side, slots[i], i - 1)
    ELSE SlotIsZero(slots[i])

\* C21: in every emitted snapshot the populated bid slots have strictly
\* decreasing prices and the populated ask slots strictly increasing prices.
C21_SnapshotPricesOrdered ==
    (Processed /\ Emitted) =>
        \A i \in 1..(MAX_DEPTH - 1) :
            /\ (Populated(current_mbp_row.bid_levels[i])
                   /\ Populated(current_mbp_row.bid_levels[i + 1])) =>
                  current_mbp_row.bid_levels[i].price.nanos >
                      current_mbp_row.bid_levels[i + 1].price.nanos
            /\ (Populated(current_mbp_row.ask_levels[i])
                   /\ Populated(current_mbp_row.ask_levels[i + 1])) =>
                  current_mbp_row.ask_levels[i].price.nanos <
                      current_mbp_row.ask_levels[i + 1].price.nanos

\* a snapshot with all 10 slots populated on both sides, after an Add that
\* made a new best bid
C21_Witness ==
    /\ Processed /\ Emitted /\ ValidAdd(order) /\ order.side = "B"
    /\ RankOf(Book, "B", order.price_scaled) = 0
    /\ \A i \in 1..MAX_DEPTH :
          /\ Populated(current_mbp_row.bid_levels[i])
          /\ Populated(current_mbp_row.ask_levels[i])

\* C22: in every emitted snapshot, for each side, slot i (0 <= i < min(10,
\* levels of the side)) holds the (price, total_size, order_count) of the
\* i-th best level of the book after the triggering event, every remaining
\* slot up to 9 is (0, 0, 0), and the populated slots form a prefix.
C22_SlotsAreBestLevels ==
    (Processed /\ Emitted) =>
        \A side \in {"B", "A"} :
            /\ \A i \in 1..MAX_DEPTH :
                  SlotAsExpected(Book, side, Slots(current_mbp_row, side), i)
            /\ \A i \in 1..(MAX_DEPTH - 1) :
                  Populated(Slots(current_mbp_row, side)[i + 1]) =>
                      Populated(Slots(current_mbp_row, side)[i])

\* a snapshot after a Cancel that left 9 bid levels beside 10 ask levels
C22_Witness ==
    /\ Processed /\ Emitted /\ order.action = "C"
    /\ Len(pre.book.bid_levels) = MAX_DEPTH
    /\ Len(bid_levels) = MAX_DEPTH - 1
    /\ Len(ask_levels) >= MAX_DEPTH
    /\ ~Populated(current_mbp_row.bid_levels[MAX_DEPTH])

\* the ids of the level are distinct and the order index holds each of them
\* at this side and price: the level is what Adds of that many distinct
\* order ids at this side and price have built
BuiltByAdds(book, side, p) ==
    LET ids == At(SideMap(book, side), p).order_ids IN
    \A k \in 1..Len(ids) :
        /\ Occurrences(ids, ids[k]) = 1
        /\ ids[k] \in DOMAIN book.active_orders
        /\ book.active_orders[ids[k]].side = side
        /\ book.active_orders[ids[k]].price_scaled = p

\* the orders that the order index holds at this side and price
IdsAt(book, side, p) ==
    {id \in DOMAIN book.active_orders :
        /\ book.active_orders[id].side = side
        /\ book.active_orders[id].price_scaled = p}

\* sum of the sizes the order index records for a set of ids
RECURSIVE SizeOf(_, _)
SizeOf(ids, index) ==
    IF ids = {} THEN 0
    ELSE LET id == CHOOSE x \in ids : TRUE
         IN index[id].size + SizeOf(ids \ {id}, index)

\* the slots of the side that carry price p
SlotsAtPrice(row, side, p) ==
    {i \in 1..MAX_DEPTH : /\ Populated(Slots(row, side)[i])
                          /\ Slots(row, side)[i].price.nanos = p}

\* C23: aggregation at a level: after Adds of n distinct order ids at the
\* same side and price (within the top 10) the snapshot shows a single level
\* at that price whose size is the sum of the n sizes and whose count is n.
C23_LevelAggregatesAdds ==
    (Processed /\ ValidAdd(order) /\ Emitted
       /\ BuiltByAdds(Book, order.side, order.price_scaled)) =>
        LET p == order.price_scaled
            ids == IdsAt(Book, order.side, p)
            at == SlotsAtPrice(current_mbp_row, order.side, p)
        IN /\ Cardinality(at) = 1
           /\ \A i \in at :
                 /\ Slots(current_mbp_row, order.side)[i].size =
                       SizeOf(ids, active_orders)
                 /\ Slots(current_mbp_row, order.side)[i].count =
                       Cardinality(ids)

\* the third Add of three distinct ids at one top-10 price
C23_Witness ==
    /\ Processed /\ ValidAdd(order) /\ Emitted
    /\ BuiltByAdds(Book, order.side, order.price_scaled)
    /\ Cardinality(IdsAt(Book, order.side, order.price_scaled)) = 3
    /\ prev.order.action = "A"
    /\ prev.order.side = order.side
    /\ prev.order.price_scaled = order.price_scaled

\* the record processed is the Cancel of the only order of the best level
\* of a side that holds 11 levels or more
CancelOfBestOf11 ==
    /\ Processed /\ order.action = "C"
    /\ order.order_id \in DOMAIN pre.book.active_orders
    /\ LET info == pre.book.active_orders[order.order_id]
           m0 == SideMap(pre.book, info.side)
       IN /\ Len(m0) >= 11
          /\ HasKey(m0, info.price_scaled)
          /\ RankOf(pre.book, info.side, info.price_scaled) = 0
          /\ At(m0, info.price_scaled).order_count = 1

\* C24: when a side holds at least 11 price levels and a Cancel removes the
\* only order of its best level, a snapshot is emitted in which each former
\* rank i+1 level appears in slot i, slot 9 holds the former 11th-best level
\* and the removed price no longer appears.
C24_CancelBestShiftsLevels ==
    CancelOfBestOf11 =>
        LET info == pre.book.active_orders[order.order_id]
            slots == Slots(current_mbp_row, info.side)
        IN /\ Emitted
           /\ \A i \in 1..MAX_DEPTH :
                 SlotHoldsRank(pre.book, info.side, slots[i], i)
           /\ SlotsAtPrice(current_mbp_row, info.side, info.price_scaled) = {}

\* the Cancel of the ladder's best bid when the ladder has 11 bid levels
C24_Witness ==
    /\ CancelOfBestOf11
    /\ pre.book.active_orders[order.order_id].side = "B"
    /\ Populated(current_mbp_row.bid_levels[MAX_DEPTH])
    /\ Len(bid_levels) = MAX_DEPTH

\* the record processed is a Trade declared on side s at the top-10 price
\* of an order that rests alone on side s
TradeOfRestingAlone ==
    /\ Processed /\ order.action = "T" /\ order.side \in {"B", "A"}
    /\ InTop10(pre.book, order.side, order.price_scaled)
    /\ At(SideMap(pre.book, order.side), order.price_scaled).order_count = 1

\* the record processed is the Cancel that ends Trade, Fill, Cancel for an
\* order that rested alone at a top-10 price
CancelLegOfRestingAlone ==
    /\ Processed /\ order.action = "C" /\ fed.free = 3
    /\ order.order_id \in DOMAIN pre.book.active_orders
    /\ LET info == pre.book.active_orders[order.order_id] IN
          /\ InTop10(pre.book, info.side, info.price_scaled)
          /\ At(SideMap(pre.book, info.side),
                info.price_scaled).order_count = 1

C26_TradeLegsGiveOneRow ==
    CancelLegOfRestingAlone =>
        /\ ~Emitted
        /\ Len(written) >= 1
        /\ written[Len(written)].sequence = order.sequence - 2
        /\ last_line.row.action = "T"

\* C27: the output row of a Trade is placed on the side that actually
\* changes in the book: its side field is the effective side, the opposite
\* of the declared side when the declared side has no level at the trade
\* price.
C27_TradeRowOnEffectiveSide ==
    (Processed /\ order.action = "T" /\ order.side \in {"B", "A"}
       /\ Emitted) =>
        current_mbp_row.side =
            IF HasKey(SideMap(pre.book, order.side), order.price_scaled)
            THEN order.side ELSE Opposite(order.side)

\* C28: a fully empty event stream is not an error: the run emits zero
\* snapshots and completes successfully (exit code 0).
C28_EmptyInputSucceeds ==
    (status # "running" /\ fed.ladder + fed.free = 0) =>
        /\ written = << >>
        /\ status = "done"

\* the row carries the metadata of record o and the fixed literals
CarriesMetadata(row, o) ==
    /\ row.ts_recv = o.ts_recv
    /\ row.ts_event = o.ts_event
    /\ row.action = o.action
    /\ row.side = o.side
    /\ row.size = o.size
    /\ row.flags = o.flags
    /\ row.ts_in_delta = o.ts_in_delta
    /\ row.sequence = o.sequence
    /\ row.symbol = o.symbol
    /\ row.order_id = o.order_id
    /\ row.rtype = 10
    /\ row.publisher_id = 2
    /\ row.instrument_id = 1108

DepthOf(book, o) ==
    IF InTop10(book, o.side, o.price_scaled)
    THEN RankOf(book, o.side, o.price_scaled)
    ELSE -1

\* the row is the one that the book and record o determine: every field is
\* fixed by them alone
DeterminedBy(row, book, o) ==
    /\ DOMAIN row = DOMAIN MBPRow
    /\ CarriesMetadata(row, o)
    /\ row.price = [nanos |-> o.price_scaled, per |-> 1000000000]
    /\ row.depth = DepthOf(book, o)
    /\ \A side \in {"B", "A"} :
          /\ DOMAIN Slots(row, side) = 1..MAX_DEPTH
          /\ \A i \in 1..MAX_DEPTH :
                SlotAsExpected(book, side, Slots(row, side), i)

\* C30: snapshots are pure functions of the current book state plus the
\* triggering event: the snapshot is the row that the book after the event
\* and the event determine, whatever was processed or emitted before, and
\* generating it leaves bids, asks and the order index as the event left
\* them (for a Trade: as they were).
C30_SnapshotDeterminedByBookAndEvent ==
    (Processed /\ Emitted) =>
        /\ DeterminedBy(current_mbp_row, Book, order)
        /\ order.action = "T" => Book = pre.book

\* the snapshot of a Trade, which leaves the book alone, right after the
\* snapshot of the ladder's last Add
C30_Witness ==
    /\ Processed /\ Emitted /\ order.action = "T"
    /\ fed.ladder = 2 * MAX_DEPTH /\ fed.free = 1
    /\ current_mbp_row.sequence = order.sequence
    /\ Book = pre.book

\* ------------------------------------------------------------------------
\* C31..C37
\* ------------------------------------------------------------------------
\* the prices get_price_depth is asked about: every price of the book and
\* the prices of the records that follow the ladder
AskedPrices ==
    {bid_levels[i].key : i \in 1..Len(bid_levels)}
        \cup {ask_levels[i].key : i \in 1..Len(ask_levels)}
        \cup FreePrices \cup {0}

\* C31: get_price_depth(side, p) is the 0-based rank of p among the side's
\* prices in iteration order (bids descending, asks ascending) when p is one
\* of the first 10, and -1 otherwise: p absent, p ranked 11th or worse, or
\* side neither B nor A.
C31_DepthIsRankWithinTen ==
    \A side \in Sides : \A p \in AskedPrices :
        get_price_depth(Book, side, p) =
            IF InTop10(Book, side, p) THEN RankOf(Book, side, p) ELSE -1

\* a side with 11 levels or more: its 10th price has depth 9, its 11th -1
C31_Witness ==
    /\ Len(bid_levels) > MAX_DEPTH
    /\ get_price_depth(Book, "B", bid_levels[MAX_DEPTH].key) = MAX_DEPTH - 1
    /\ get_price_depth(Book, "B", bid_levels[MAX_DEPTH + 1].key) = -1
    /\ get_price_depth(Book, "N", bid_levels[1].key) = -1

\* the Cancel processed names an order the index held
KnownCancel ==
    order.action = "C" /\ order.order_id \in DOMAIN pre.book.active_orders

\* the side and the price of the level an Add or a Cancel works on: the
\* Add's own, the Cancel's as the order index held them
Touched ==
    IF KnownCancel
    THEN [side |-> pre.book.active_orders[order.order_id].side,
          price |-> pre.book.active_orders[order.order_id].price_scaled]
    ELSE [side |-> order.side, price |-> order.price_scaled]

\* the first 10 (price, size, count) of the side are not what they were
ViewChanged(side) ==
    /\ side \in {"B", "A"}
    /\ TopTen(SideMap(Book, side)) # TopTen(SideMap(pre.book, side))

\* the Add or Cancel processed changes nothing: a rejected Add, a Cancel of
\* an id the index does not hold
Refused ==
    \/ order.action = "A" /\ ~ValidAdd(order)
    \/ order.action = "C" /\ ~KnownCancel

\* the level worked on has 10 better prices or more on its side: after the
\* Add, before the Cancel
BeyondTen ==
    /\ ~Refused
    /\ RankOf(IF order.action = "A" THEN Book ELSE pre.book,
              Touched.side, Touched.price) >= MAX_DEPTH

\* C32: for an Add or a Cancel a snapshot is emitted if and only if the
\* event changed the first 10 (price, size, count) triples of its side: an
\* Add or Cancel at rank 11 or worse, a rejected Add and a Cancel of an
\* unknown id change nothing visible and emit nothing, every other Add or
\* Cancel changes the view and emits.
C32_AddCancelEmitIffViewOfSideChanged ==
    (Processed /\ order.action \in {"A", "C"}) =>
        /\ Emitted <=> ViewChanged(Touched.side)
        /\ ~ViewChanged(Opposite(Touched.side))
        /\ Refused => (~Emitted /\ Book = pre.book)
        /\ BeyondTen => (~Emitted /\ ~TopTenChanged)
        /\ (~Refused /\ ~BeyondTen) =>
              (Emitted /\ ViewChanged(Touched.side))

\* an Add whose level is the 10th of its side: the view changes, a snapshot
\* is emitted
C32_Witness ==
    /\ Processed /\ ValidAdd(order)
    /\ RankOf(Book, order.side, order.price_scaled) = MAX_DEPTH - 1
    /\ ViewChanged(order.side)
    /\ Emitted

\* C33: no error is fatal while validated events are processed: every
\* snapshot produced from a record that passed validate_order is accepted
\* by validate_mbp_row, so the loop never returns 1 on a record the parser
\* kept, a Cancel or Trade with an empty symbol included.
C33_ValidatedEventsNeverAbort ==
    /\ status # "failed"
    /\ (Processed /\ Emitted) => validate_mbp_row(current_mbp_row)

\* the Cancel processed took the last order out of its level: the level the
\* order index named is gone
CancelEmptiedLevel ==
    /\ KnownCancel
    /\ HasKey(SideMap(pre.book, Touched.side), Touched.price)
    /\ ~HasKey(SideMap(Book, Touched.side), Touched.price)

\* the Cancel carries the side and the price the order index held
CancelAsStored ==
    order.side = Touched.side /\ order.price_scaled = Touched.price

\* C34: the depth of a snapshot is evaluated on the book after the record's
\* mutation with the record's own side and price: every snapshot of an Add
\* has a depth in 0..9, the rank of the added level, and a snapshot of a
\* Cancel that removed the last order of its level has depth -1.
C34_DepthOnBookAfter ==
    (Processed /\ Emitted /\ order.action \in {"A", "C"}) =>
        /\ current_mbp_row.depth = DepthOf(Book, order)
        /\ order.action = "A" =>
              /\ current_mbp_row.depth \in 0..(MAX_DEPTH - 1)
              /\ current_mbp_row.depth =
                    RankOf(Book, order.side, order.price_scaled)
        /\ CancelEmptiedLevel => current_mbp_row.depth = -1

\* C34 as amended: the same, the depth -1 being that of a Cancel which
\* removed the last order of its level and carries the side and the price
\* of that level; a Cancel that carries another side or price has the depth
\* of the level its own side and price name after the removal.
C34_DepthOnBookAfterOwnSideAndPrice ==
    (Processed /\ Emitted /\ order.action \in {"A", "C"}) =>
        /\ current_mbp_row.depth = DepthOf(Book, order)
        /\ order.action = "A" =>
              /\ current_mbp_row.depth \in 0..(MAX_DEPTH - 1)
              /\ current_mbp_row.depth =
                    RankOf(Book, order.side, order.price_scaled)
        /\ (CancelEmptiedLevel /\ CancelAsStored) =>
              current_mbp_row.depth = -1

\* a Cancel with the stored side and price that removed the only order of a
\* top-10 level: snapshot with depth -1
C34_Witness ==
    /\ Processed /\ Emitted
    /\ CancelEmptiedLevel /\ CancelAsStored
    /\ current_mbp_row.depth = -1

\* the entries of a side's map at prices other than p
EntriesBut(m, p) == {m[i] : i \in {j \in 1..Len(m) : m[j].key # p}}

\* C35: a Cancel is resolved by its order id alone: the removal and the
\* emit decision use the side, price and size the order index stored at Add
\* time, so a Cancel whose own side, price or size differ still removes
\* exactly the stored order with its stored size from its stored level.
C35_CancelResolvedById ==
    (Processed /\ KnownCancel) =>
        LET info == pre.book.active_orders[order.order_id]
            p == info.price_scaled
            m0 == SideMap(pre.book, info.side)
            m1 == SideMap(Book, info.side)
        IN /\ active_orders =
                [id \in DOMAIN pre.book.active_orders \ {order.order_id} |->
                    pre.book.active_orders[id]]
           /\ SideMap(Book, Opposite(info.side)) =
                SideMap(pre.book, Opposite(info.side))
           /\ EntriesBut(m1, p) = EntriesBut(m0, p)
           /\ HasKey(m0, p)
           /\ LET it == FindFrom(At(m0, p).order_ids, order.order_id, 1) IN
                /\ it # 0
                /\ IF At(m0, p).order_count = 1
                   THEN ~HasKey(m1, p)
                   ELSE /\ HasKey(m1, p)
                        /\ At(m1, p) =
                             [price_scaled |-> At(m0, p).price_scaled,
                              total_size |-> At(m0, p).total_size - info.size,
                              order_count |-> At(m0, p).order_count - 1,
                              order_ids |-> EraseAt(At(m0, p).order_ids, it)]
           /\ Emitted <=> InTop10(pre.book, info.side, p)

\* a Cancel that states another side, another price and another size than
\* were stored, with a level at the side and price it states: the stored
\* order leaves its level, the stated level stays as it was
C35_Witness ==
    /\ Processed /\ KnownCancel /\ Emitted
    /\ LET info == pre.book.active_orders[order.order_id] IN
          /\ order.side # info.side
          /\ order.price_scaled # info.price_scaled
          /\ order.size # info.size
          /\ HasKey(SideMap(Book, order.side), order.price_scaled)
          /\ SideMap(Book, info.side) # SideMap(pre.book, info.side)

\* the levels of both sides
AllLevels ==
    {bid_levels[i].level : i \in 1..Len(bid_levels)}
        \cup {ask_levels[i].level : i \in 1..Len(ask_levels)}

\* C36: under any sequence of records, Adds that reuse a live order id on
\* the same or another level or side included, no level's total_size goes
\* below zero: every level of the book has total_size >= order_count >= 1.
C36_TotalSizeNeverUnderflows ==
    \A level \in AllLevels :
        /\ level.order_count >= 1
        /\ level.total_size >= level.order_count

\* the id was added twice to one level, which lists it twice, and cancelled
\* once: the level still lists it, with one order and a size left
C36_Witness ==
    /\ Processed /\ order.action = "C" /\ order.order_id = ReuseId
    /\ ReuseId \notin DOMAIN active_orders
    /\ \E level \in AllLevels :
          /\ Occurrences(level.order_ids, ReuseId) >= 1
          /\ \E old \in {pre.book.bid_levels[i].level :
                              i \in 1..Len(pre.book.bid_levels)} :
                /\ old.price_scaled = level.price_scaled
                /\ Occurrences(old.order_ids, ReuseId) >= 2
                /\ level.total_size < old.total_size

\* the 20 slots of the row are the first 10 levels of each side of the
\* book, zeros after the last level
ShowsBook(row, book) ==
    \A side \in {"B", "A"} :
        LET m == SideMap(book, side) IN
        \A i \in 1..MAX_DEPTH :
            Slots(row, side)[i] =
                IF i <= Len(m)
                THEN [price |-> [nanos |-> m[i].key, per |-> 1000000000],
                      size |-> m[i].level.total_size,
                      count |-> m[i].level.order_count]
                ELSE [price |-> [nanos |-> 0, per |-> 1000000000],
                      size |-> 0, count |-> 0]

\* C37: the driver writes each returned snapshot before it processes the
\* next record: a step that returns a snapshot appends one line, which
\* carries the record's sequence and shows the book as the record left it,
\* and no other step touches the lines written so far.
C37_RowsWrittenAtTheirEvent ==
    [][IF pc' = "body" /\ mbp_row' = "row" /\ status' = "running"
       THEN /\ written' = Append(written, [index |-> row_index,
                                            sequence |-> order'.sequence])
            /\ last_line' = [index |-> row_index, row |-> current_mbp_row']
            /\ last_line'.row.sequence = order'.sequence
            /\ ShowsBook(last_line'.row, Book')
       ELSE /\ written' = written
            /\ last_line' = last_line]_vars

\* a line was written, then a later record changed the book without a
\* snapshot: the line still shows the book as its own record left it
C37_Witness ==
    /\ Processed /\ ~Emitted /\ status = "running"
    /\ Book # pre.book
    /\ written # << >>
    /\ last_line.row.sequence = written[Len(written)].sequence
    /\ last_line.row.sequence < order.sequence
    /\ ShowsBook(last_line.row, pre.book)
    /\ ~ShowsBook(last_line.row, Book)

====
